---------------------------- MODULE Spec2Model ----------------------------
(***************************************************************************)
(* A model of go-cql-scaffold (src/main.go): the CQL-to-Go type mapper     *)
(* cqlToGoType, the struct generator generateGoStruct and the run of main. *)
(*                                                                         *)
(* Go strings that the program inspects character by character (catalog    *)
(* type tokens, column and table names) are sequences of one-character     *)
(* strings.  Text that the program only builds (Go type names, struct      *)
(* definitions, file content) is a TLA+ string built with \o.              *)
(***************************************************************************)
EXTENDS Integers, Sequences, FiniteSets, TLC

VARIABLES
    pc,                 \* position of the run: which statement of main (or of the type call) is next
    keyspace,           \* the -keyspace flag, a character sequence
    tableNames,         \* main's tableNames, as returned by fetchTableNames
    idx,                \* how many elements of tableNames the loop of main has consumed
    structDefinitions,  \* main's structDefinitions, a sequence of texts
    writeIdx,           \* how many elements of structDefinitions the write loop has consumed
    dirCreated,         \* os.MkdirAll has succeeded
    fileOpen,           \* os.OpenFile has succeeded
    fileContent,        \* what has been written to the file, one element per successful WriteString
    stdout,             \* lines printed with fmt.Println
    log,                \* lines printed through the log package
    ioErrors,           \* history: the output steps (mkdir, open, header, struct) that failed
    exitCode,           \* -1 while running, else the exit status of the process
    columnQueries,      \* history: the column queries issued, one table name each
    tableLog,           \* history: per table processed, what the catalog returned and what became of it
    cqlType,            \* the argument of the type call under TypeSpec
    typeTree,           \* history: the type tree cqlType was rendered from, or <<"token">>
    typeResult          \* the result of the type call under TypeSpec

vars == << pc, keyspace, tableNames, idx, structDefinitions, writeIdx, dirCreated,
           fileOpen, fileContent, stdout, log, ioErrors, exitCode, columnQueries,
           tableLog, cqlType, typeTree, typeResult >>

runVars == << keyspace, tableNames, idx, structDefinitions, writeIdx, dirCreated,
              fileOpen, fileContent, stdout, log, ioErrors, exitCode, columnQueries,
              tableLog >>

typeVars == << cqlType, typeTree, typeResult >>

(***************************************************************************)
(* Bounds of the model.                                                    *)
(***************************************************************************)
MaxNodes == 5

MaxPad == 1

MaxTables == 2

(***************************************************************************)
(* Characters and strings.                                                 *)
(***************************************************************************)
UpperLetters == << "A","B","C","D","E","F","G","H","I","J","K","L","M",
                   "N","O","P","Q","R","S","T","U","V","W","X","Y","Z" >>

LowerLetters == << "a","b","c","d","e","f","g","h","i","j","k","l","m",
                   "n","o","p","q","r","s","t","u","v","w","x","y","z" >>

Digits == { "0","1","2","3","4","5","6","7","8","9" }

IsUpper(c) == \E i \in 1..26 : UpperLetters[i] = c

IsLower(c) == \E i \in 1..26 : LowerLetters[i] = c

ToLowerChar(c) ==
    IF IsUpper(c) THEN LowerLetters[CHOOSE i \in 1..26 : UpperLetters[i] = c] ELSE c

ToUpperChar(c) ==
    IF IsLower(c) THEN UpperLetters[CHOOSE i \in 1..26 : LowerLetters[i] = c] ELSE c

\* unicode.IsSpace on the characters the model uses
IsSpace(c) == c \in { " ", "\t", "\n", "\r" }

\* strings.ToLower
ToLower(s) == [ i \in 1..Len(s) |-> ToLowerChar(s[i]) ]

\* a trim that removes leading white space only
TrimLeftOnly(s) ==
    LET nonSpace == { i \in 1..Len(s) : ~ IsSpace(s[i]) }
    IN  IF nonSpace = {} THEN << >>
        ELSE SubSeq(s, CHOOSE i \in nonSpace : \A j \in nonSpace : i <= j, Len(s))

\* strings.TrimSpace: all leading and trailing white space removed
TrimSpace(s) ==
    LET nonSpace == { i \in 1..Len(s) : ~ IsSpace(s[i]) }
    IN  IF nonSpace = {} THEN << >>
        ELSE LET lo == CHOOSE i \in nonSpace : \A j \in nonSpace : i <= j
                 hi == CHOOSE i \in nonSpace : \A j \in nonSpace : j <= i
             IN  SubSeq(s, lo, hi)

\* the text of a character sequence (what %s prints)
RECURSIVE Str(_)
Str(s) == IF s = << >> THEN "" ELSE s[1] \o Str(Tail(s))

HasPrefix(s, p) == Len(s) >= Len(p) /\ SubSeq(s, 1, Len(p)) = p

\* the regular expression .+ matches all of s: one or more characters, none a line feed
DotPlus(s) == Len(s) >= 1 /\ \A i \in 1..Len(s) : s[i] # "\n"

(***************************************************************************)
(* cqlToGoType.                                                            *)
(***************************************************************************)
NoError == [ isNil |-> TRUE, arg |-> << >> ]

\* fmt.Errorf("unknown CQL type: %s", cqlType)
UnknownType(t) == [ isNil |-> FALSE, arg |-> t ]

\* ^map<(.+),(.+)>$ : the positions of a comma at which the expression can match s
mapCommas(s) ==
    IF HasPrefix(s, << "m","a","p","<" >>) /\ s[Len(s)] = ">"
    THEN { j \in 6..(Len(s) - 2) :
              /\ s[j] = ","
              /\ DotPlus(SubSeq(s, 5, j - 1))
              /\ DotPlus(SubSeq(s, j + 1, Len(s) - 1)) }
    ELSE {}

\* FindStringSubmatch of mapPattern: << >> for nil, else << key, value >>.  The
\* first group is greedy and the match is the leftmost-first one, so the first
\* group is the longest possible: the split is at the last comma.
mapPattern(s) ==
    LET js == mapCommas(s)
    IN  IF js = {} THEN << >>
        ELSE LET j == CHOOSE x \in js : \A y \in js : y <= x
             IN  << SubSeq(s, 5, j - 1), SubSeq(s, j + 1, Len(s) - 1) >>

\* FindStringSubmatch of ^list<(.+)>$ : << >> for nil, else << elem >>
listPattern(s) ==
    IF /\ HasPrefix(s, << "l","i","s","t","<" >>)
       /\ s[Len(s)] = ">"
       /\ DotPlus(SubSeq(s, 6, Len(s) - 1))
    THEN << SubSeq(s, 6, Len(s) - 1) >>
    ELSE << >>

\* FindStringSubmatch of ^set<(.+)>$ : << >> for nil, else << elem >>
setPattern(s) ==
    IF /\ HasPrefix(s, << "s","e","t","<" >>)
       /\ s[Len(s)] = ">"
       /\ DotPlus(SubSeq(s, 5, Len(s) - 1))
    THEN << SubSeq(s, 5, Len(s) - 1) >>
    ELSE << >>

\* the switch of cqlToGoType on the trimmed, lower-cased token
scalarSwitch(t) ==
    LET s == Str(t)
        ok(g) == [ goType |-> g, err |-> NoError ]
    IN  CASE s \in { "uuid", "time.uuid" } -> ok("gocql.UUID")
          [] s = "boolean"                 -> ok("bool")
          [] s \in { "text", "varchar" }   -> ok("string")
          [] s = "int"                     -> ok("int")
          [] s = "bigint"                  -> ok("int64")
          [] s = "tinyint"                 -> ok("int8")
          [] s = "smallint"                -> ok("int16")
          [] s = "float"                   -> ok("float32")
          [] s = "double"                  -> ok("float64")
          [] s = "decimal"                 -> ok("gocql.Decimal")
          [] s = "timestamp"               -> ok("time.Time")
          [] s = "date"                    -> ok("gocql.Date")
          [] s = "time"                    -> ok("gocql.Time")
          [] s = "blob"                    -> ok("[]byte")
          [] OTHER                         -> [ goType |-> "", err |-> UnknownType(t) ]

RECURSIVE cqlToGoType(_)

\* a list branch that drops the element's error
ListIgnoresError(elem) ==
    LET e == cqlToGoType(elem)
    IN  [ goType |-> "[]" \o e.goType, err |-> NoError ]

\* the list<...> branch, given the captured element type
listBranch(elem) ==
    LET e == cqlToGoType(elem)
    IN  IF ~ e.err.isNil THEN [ goType |-> "", err |-> e.err ]
        ELSE [ goType |-> "[]" \o e.goType, err |-> NoError ]

cqlToGoType(raw) ==
    LET t == ToLower(TrimSpace(raw))
        m == mapPattern(t)
        l == listPattern(t)
        s == setPattern(t)
    IN  IF m # << >> THEN
            LET k == cqlToGoType(m[1])
            IN  IF ~ k.err.isNil THEN [ goType |-> "", err |-> k.err ]
                ELSE LET v == cqlToGoType(m[2])
                     IN  IF ~ v.err.isNil THEN [ goType |-> "", err |-> v.err ]
                         ELSE [ goType |-> "map[" \o k.goType \o "]" \o v.goType,
                                err |-> NoError ]
        ELSE IF l # << >> THEN listBranch(l[1])
        ELSE IF s # << >> THEN
            LET e == cqlToGoType(s[1])
            IN  IF ~ e.err.isNil THEN [ goType |-> "", err |-> e.err ]
                ELSE [ goType |-> "map[" \o e.goType \o "]struct{}", err |-> NoError ]
        ELSE scalarSwitch(t)

(***************************************************************************)
(* The inputs of the type call: catalog type tokens.                       *)
(***************************************************************************)
\* the scalar names the switch of cqlToGoType knows
KnownScalars ==
    { << "u","u","i","d" >>,
      << "t","i","m","e",".","u","u","i","d" >>,
      << "b","o","o","l","e","a","n" >>,
      << "t","e","x","t" >>,
      << "v","a","r","c","h","a","r" >>,
      << "i","n","t" >>,
      << "b","i","g","i","n","t" >>,
      << "t","i","n","y","i","n","t" >>,
      << "s","m","a","l","l","i","n","t" >>,
      << "f","l","o","a","t" >>,
      << "d","o","u","b","l","e" >>,
      << "d","e","c","i","m","a","l" >>,
      << "t","i","m","e","s","t","a","m","p" >>,
      << "d","a","t","e" >>,
      << "t","i","m","e" >>,
      << "b","l","o","b" >> }

\* catalog scalar types the switch does not know
UnknownScalars ==
    { << "i","n","e","t" >>,
      << "v","a","r","i","n","t" >>,
      << "t","i","m","e","u","u","i","d" >>,
      << "c","o","u","n","t","e","r" >> }

\* tokens that are no scalar name and no well-formed collection
OtherTokens ==
    { << >>,
      << "f","r","o","z","e","n","<","i","n","t",">" >>,
      << "t","u","p","l","e","<","i","n","t",",","i","n","t",">" >>,
      << "m","a","p","<","i","n","t",">" >>,
      << "m","a","p","<",",",">" >>,
      << "m","a","p","<","i","n","t",",",">" >>,
      << "l","i","s","t","<",">" >>,
      << "s","e","t","<",">" >>,
      << "b","i","g"," ","i","n","t" >>,
      << "m","a","p","<","i","n","t",",","i","n","t" >>,
      << "i","n","t",">" >>,
      << "l","i","s","t","<","i","n","t",">",">" >>,
      << "m","a","p","<","i","n","t",",","\n","i","n","t",">" >>,
      << "<","i","n","t",">" >>,
      << "m","a","p"," ","<","i","n","t",",","i","n","t",">" >>,
      << "s","t","r","i","n","g" >>,
      << "[","]","b","y","t","e" >> }

\* the leaves of the generated type trees
TreeLeaves ==
    { << "i","n","t" >>, << "t","e","x","t" >>, << "i","n","e","t" >> }

\* A type tree: << "scalar", name >>, << "list", t >>, << "set", t >> or
\* << "map", k, v >>.  TreesOfSize[n] are the trees of n nodes.
TreesOfSize[n \in 1..(MaxNodes + 1)] ==
    IF n = 1 THEN { << "scalar", l >> : l \in TreeLeaves }
    ELSE { << "list", t >> : t \in TreesOfSize[n - 1] }
         \cup { << "set", t >> : t \in TreesOfSize[n - 1] }
         \cup UNION { { << "map", k, v >> : k \in TreesOfSize[i], v \in TreesOfSize[n - 1 - i] }
                      : i \in 1..(n - 2) }

Trees == UNION { TreesOfSize[n] : n \in 1..MaxNodes }

\* the catalog's text of a type tree, with sep between a map's key and value
RECURSIVE Render(_, _)
Render(t, sep) ==
    CASE t[1] = "scalar" -> t[2]
      [] t[1] = "list"   -> << "l","i","s","t","<" >> \o Render(t[2], sep) \o << ">" >>
      [] t[1] = "set"    -> << "s","e","t","<" >> \o Render(t[2], sep) \o << ">" >>
      [] t[1] = "map"    -> << "m","a","p","<" >> \o Render(t[2], sep) \o sep
                            \o Render(t[3], sep) \o << ">" >>

\* s with the letters at the positions of mask in upper case
WithCase(s, mask) == [ i \in 1..Len(s) |-> IF i \in mask THEN ToUpperChar(s[i]) ELSE s[i] ]

\* white space of at most MaxPad characters
Pads == UNION { [ 1..n -> { " ", "\n" } ] : n \in 0..MaxPad }

Separators == { << "," >>, << ",", " " >> }

(***************************************************************************)
(* The type call on its own: one call of cqlToGoType on a catalog token.   *)
(***************************************************************************)
NoResult == [ goType |-> "", err |-> NoError ]

\* the variables of the run of main, at rest while the type call is studied
RunAtRest ==
    /\ keyspace = << >>
    /\ tableNames = << >>
    /\ idx = 0
    /\ structDefinitions = << >>
    /\ writeIdx = 0
    /\ dirCreated = FALSE
    /\ fileOpen = FALSE
    /\ fileContent = << >>
    /\ stdout = << >>
    /\ log = << >>
    /\ ioErrors = << >>
    /\ exitCode = -1
    /\ columnQueries = << >>
    /\ tableLog = << >>

TypeInit ==
    /\ pc = "type_call"
    /\ typeResult = NoResult
    /\ RunAtRest
    /\ \/ \E name \in KnownScalars \cup UnknownScalars :
          \E mask \in SUBSET (1..Len(name)) :
          \E lead \in Pads, trail \in Pads :
             /\ cqlType = lead \o WithCase(name, mask) \o trail
             /\ typeTree = << "scalar", name >>
       \/ \E t \in Trees, sep \in Separators, upper \in BOOLEAN :
             /\ cqlType = LET r == Render(t, sep)
                          IN  IF upper THEN WithCase(r, 1..Len(r)) ELSE r
             /\ typeTree = t
       \/ \E tok \in OtherTokens :
             /\ cqlType = tok
             /\ typeTree = << "token" >>

TypeCall ==
    /\ pc = "type_call"
    /\ typeResult' = cqlToGoType(cqlType)
    /\ pc' = "type_done"
    /\ UNCHANGED << runVars, cqlType, typeTree >>

TypeNext == TypeCall

TypeSpec == TypeInit /\ [][TypeNext]_vars

(***************************************************************************)
(* What the claims about the type call refer to.                           *)
(***************************************************************************)
\* the target type of each scalar name of the fixed scalar set
ExpectedScalar ==
    [ n \in { "uuid", "time.uuid", "boolean", "text", "varchar", "int", "bigint",
              "tinyint", "smallint", "float", "double", "decimal", "timestamp",
              "date", "time", "blob" } |->
        CASE n = "boolean"   -> "bool"
          [] n = "text"      -> "string"
          [] n = "varchar"   -> "string"
          [] n = "int"       -> "int"
          [] n = "bigint"    -> "int64"
          [] n = "tinyint"   -> "int8"
          [] n = "smallint"  -> "int16"
          [] n = "float"     -> "float32"
          [] n = "double"    -> "float64"
          [] n = "decimal"   -> "gocql.Decimal"
          [] n = "timestamp" -> "time.Time"
          [] n = "date"      -> "gocql.Date"
          [] n = "time"      -> "gocql.Time"
          [] n = "blob"      -> "[]byte"
          [] OTHER           -> "gocql.UUID" ]

IsScalarName(name) == Str(name) \in DOMAIN ExpectedScalar

\* every scalar leaf of the tree is a name of the fixed scalar set
RECURSIVE AllKnown(_)
AllKnown(t) ==
    CASE t[1] = "scalar" -> IsScalarName(t[2])
      [] t[1] = "map"    -> AllKnown(t[2]) /\ AllKnown(t[3])
      [] OTHER           -> AllKnown(t[2])

\* the target type of a type tree whose leaves are all known
RECURSIVE GoOf(_)
GoOf(t) ==
    CASE t[1] = "scalar" -> ExpectedScalar[Str(t[2])]
      [] t[1] = "list"   -> "[]" \o GoOf(t[2])
      [] t[1] = "set"    -> "map[" \o GoOf(t[2]) \o "]struct{}"
      [] t[1] = "map"    -> "map[" \o GoOf(t[2]) \o "]" \o GoOf(t[3])

IsCollection(t) == t[1] \in { "map", "list", "set" }

\* the angle-bracket nesting depth of s just before position j
DepthBefore(s, j) ==
    Cardinality({ i \in 1..(j - 1) : s[i] = "<" }) - Cardinality({ i \in 1..(j - 1) : s[i] = ">" })

\* the commas of s at nesting depth 0
DepthZeroCommas(s) == { j \in 1..Len(s) : s[j] = "," /\ DepthBefore(s, j) = 0 }

\* a map token split at the comma that is at depth 0 of its body
SplitAtDepthZero(s) ==
    LET body == SubSeq(s, 5, Len(s) - 1)
        j    == CHOOSE x \in DepthZeroCommas(body) : TRUE
    IN  << SubSeq(body, 1, j - 1), SubSeq(body, j + 1, Len(body)) >>

\* The grammar of catalog types read structurally (a map's separator is the one
\* comma at depth 0 of its body): the target type, or "" if raw is not a type.
RECURSIVE Structural(_)
Structural(raw) ==
    LET t == ToLower(TrimSpace(raw))
        closed == Len(t) >= 1 /\ t[Len(t)] = ">"
    IN  IF HasPrefix(t, << "m","a","p","<" >>) /\ closed THEN
            LET body == SubSeq(t, 5, Len(t) - 1)
                cs   == DepthZeroCommas(body)
            IN  IF Cardinality(cs) # 1 THEN ""
                ELSE LET j == CHOOSE x \in cs : TRUE
                         k == Structural(SubSeq(body, 1, j - 1))
                         v == Structural(SubSeq(body, j + 1, Len(body)))
                     IN  IF k = "" \/ v = "" THEN "" ELSE "map[" \o k \o "]" \o v
        ELSE IF HasPrefix(t, << "l","i","s","t","<" >>) /\ closed THEN
            LET e == Structural(SubSeq(t, 6, Len(t) - 1))
            IN  IF e = "" THEN "" ELSE "[]" \o e
        ELSE IF HasPrefix(t, << "s","e","t","<" >>) /\ closed THEN
            LET e == Structural(SubSeq(t, 5, Len(t) - 1))
            IN  IF e = "" THEN "" ELSE "map[" \o e \o "]struct{}"
        ELSE IF IsScalarName(t) THEN ExpectedScalar[Str(t)]
        ELSE ""

\* raw has the form map<...>, list<...> or set<...>
HasCollectionForm(raw) ==
    LET t == ToLower(TrimSpace(raw))
    IN  /\ Len(t) >= 1
        /\ t[Len(t)] = ">"
        /\ \/ HasPrefix(t, << "m","a","p","<" >>)
           \/ HasPrefix(t, << "l","i","s","t","<" >>)
           \/ HasPrefix(t, << "s","e","t","<" >>)

TypeDone == pc = "type_done"

Succeeded(g) == typeResult = [ goType |-> g, err |-> NoError ]

Failed == ~ typeResult.err.isNil /\ typeResult.goType = ""

\* C1: every map type whose key or value is itself a collection is split at the
\* comma at nesting depth 0 of its body, and when all its scalars are known it
\* maps, with no error, to the map from its key's type to its value's type (so
\* map<text, map<int, int>> maps to map[string]map[int]int).
C1_NestedMapSplitAtDepthZero ==
    ( /\ TypeDone
      /\ typeTree[1] = "map"
      /\ (IsCollection(typeTree[2]) \/ IsCollection(typeTree[3])) )
    => LET t == ToLower(TrimSpace(cqlType))
       IN  /\ mapPattern(t) = SplitAtDepthZero(t)
           /\ AllKnown(typeTree) => Succeeded(GoOf(typeTree))

\* C3: every case and white-space variant of a scalar name of the fixed set maps
\* to that name's target type with no error, and every token that is neither
\* such a name nor of the form map<...>, list<...>, set<...> yields the
\* unknown-type error and no type.
C3_ScalarLookup ==
    TypeDone =>
       /\ (typeTree[1] = "scalar" /\ IsScalarName(typeTree[2]))
             => Succeeded(ExpectedScalar[Str(typeTree[2])])
       /\ (typeTree[1] = "scalar" /\ ~ IsScalarName(typeTree[2]))
             => Failed /\ typeResult.err.arg = typeTree[2]
       /\ (typeTree[1] = "token" /\ ~ HasCollectionForm(cqlType))
             => Failed

\* a scalar name written with upper-case letters and white space on both sides
\* has been mapped
C3_Witness ==
    /\ TypeDone
    /\ typeTree = << "scalar", << "t","i","m","e","s","t","a","m","p" >> >>
    /\ Len(cqlType) = Len(typeTree[2]) + 2
    /\ IsSpace(cqlType[1]) /\ IsSpace(cqlType[Len(cqlType)])
    /\ IsUpper(cqlType[2]) /\ IsLower(cqlType[3])
    /\ Succeeded("time.Time")

\* the tree has a scalar leaf outside the fixed scalar set
HasUnknownLeaf(t) == t[1] # "token" /\ ~ AllKnown(t)

\* C9: the type call is all-or-nothing: either it returns a non-empty type and no
\* error, and then the token is a type of the grammar all of whose scalars are
\* known and the result is its full translation, or it returns an error and the
\* empty type; a collection with an unknown component at any depth yields the error.
C9_AllOrNothing ==
    TypeDone =>
       /\ \/ /\ typeResult.err.isNil
             /\ typeResult.goType # ""
             /\ typeResult.goType = Structural(cqlType)
          \/ Failed
       /\ HasUnknownLeaf(typeTree) => Failed

\* a list of maps whose value is an unknown scalar has yielded the error
C9_Witness ==
    /\ TypeDone
    /\ typeTree[1] = "list"
    /\ typeTree[2][1] = "map"
    /\ typeTree[2][3] = << "scalar", << "i","n","e","t" >> >>
    /\ AllKnown(typeTree[2][2])
    /\ Failed

(***************************************************************************)
(* strcase.ToCamel (github.com/iancoleman/strcase, toCamelInitCase with    *)
(* initCase = true), on the ASCII names the model uses.                    *)
(***************************************************************************)
IsDigit(c) == c \in Digits

\* the loop of toCamelInitCase from byte i on; out is the text built so far
RECURSIVE camelFrom(_, _, _, _, _, _)
camelFrom(s, i, capNext, prevIsCap, hasAcronym, out) ==
    IF i > Len(s) THEN out
    ELSE LET v      == s[i]
             vIsCap == IsUpper(v)
             vIsLow == IsLower(v)
             w      == IF capNext THEN (IF vIsLow THEN ToUpperChar(v) ELSE v)
                       ELSE IF i = 1 THEN (IF vIsCap THEN ToLowerChar(v) ELSE v)
                       ELSE IF prevIsCap /\ vIsCap /\ ~ hasAcronym THEN ToLowerChar(v)
                       ELSE v
         IN  IF vIsCap \/ vIsLow
                THEN camelFrom(s, i + 1, FALSE, vIsCap, hasAcronym, Append(out, w))
             ELSE IF IsDigit(v)
                THEN camelFrom(s, i + 1, TRUE, vIsCap, hasAcronym, Append(out, w))
             ELSE camelFrom(s, i + 1, v \in { "_", " ", "-", "." }, vIsCap, hasAcronym, out)

ToCamel(name) ==
    LET s          == TrimSpace(name)
        hasAcronym == s = << "I","D" >>
        t          == IF hasAcronym THEN << "i","d" >> ELSE s
    IN  IF s = << >> THEN << >> ELSE camelFrom(t, 1, TRUE, FALSE, hasAcronym, << >>)

\* toPascal, for a value whose camel form is not empty
toPascal(value) ==
    LET camel == ToCamel(value)
    IN  << ToUpperChar(camel[1]) >> \o Tail(camel)

(***************************************************************************)
(* The catalog: what the two queries can answer.                           *)
(***************************************************************************)
\* the tables of the keyspace
TableNamePool ==
    << << "u","s","e","r","s" >>,
       << "u","s","e","r","_","e","v","e","n","t","s" >>,
       << "o","r","d","e","r","s" >> >>

\* the columns a table can have: two names that differ by separators and case
\* only, with mapped types, and one column of a type that has no mapping
ColumnPool ==
    { [ name |-> << "u","s","e","r","_","i","d" >>, type |-> << "u","u","i","d" >> ],
      [ name |-> << "u","s","e","r","I","d" >>,
        type |-> << "s","e","t","<","t","e","x","t",">" >> ],
      [ name |-> << "a","d","d","r" >>, type |-> << "i","n","e","t" >> ] }

\* the sequences over S without repetition, of length at most n
InjectiveSeqs(S, n) ==
    UNION { { q \in [ 1..k -> S ] : \A i, j \in 1..k : i # j => q[i] # q[j] } : k \in 0..n }

\* the answers to the table query: at most MaxTables tables, in any order
TableLists ==
    InjectiveSeqs({ TableNamePool[i] : i \in 1..MaxTables }, MaxTables)

\* the answers to the column query of one table: rows << column_name, type >>
\* in the order the catalog returns them, no column twice
ColumnRows == InjectiveSeqs(ColumnPool, Cardinality(ColumnPool))

\* fetchColumnDefinitions without a query error: the rows gathered into a Go map
fetchColumnDefinitions(rows) ==
    [ c \in { rows[i].name : i \in 1..Len(rows) } |->
        (CHOOSE r \in { rows[i] : i \in 1..Len(rows) } : r.name = c).type ]

(***************************************************************************)
(* generateGoStruct.                                                       *)
(***************************************************************************)
\* the back quote that opens and closes a struct tag (written ' here: a TLA+
\* string cannot hold a back quote)
BackQuote == "'"

\* fmt.Sprintf of the field line: four spaces, identifier, type, and the tag
\* json:"<column>" between back quotes
fieldLine(f) ==
    "    " \o Str(f.ident) \o " " \o f.goType \o " " \o BackQuote
           \o "json:\"" \o Str(f.tag) \o "\"" \o BackQuote \o "\n"

\* a field whose tag is the cased identifier
FieldTaggedWithIdentifier(column, goType) ==
    [ ident |-> ToCamel(column), goType |-> goType, tag |-> ToCamel(column) ]

\* the field the loop body of generateGoStruct formats for a column
fieldOf(column, goType) ==
    [ ident |-> ToCamel(column), goType |-> goType, tag |-> column ]

\* The loop of generateGoStruct over the columns still to visit, in the order the
\* range over the map yields them; text and fields are what is built so far.
RECURSIVE structLoop(_, _, _, _)
structLoop(columns, order, text, fields) ==
    IF order = << >>
    THEN [ text |-> text \o "}\n", err |-> NoError, fields |-> fields ]
    ELSE LET column == Head(order)
             r      == cqlToGoType(columns[column])
         IN  IF ~ r.err.isNil
             THEN [ text |-> "", err |-> r.err, fields |-> << >> ]
             ELSE LET f == fieldOf(column, r.goType)
                  IN  structLoop(columns, Tail(order), text \o fieldLine(f),
                                 Append(fields, f))

\* generateGoStruct(tableName, columns), with the order in which the range over
\* the map visits its keys (Go leaves that order unspecified).  fields is the
\* content of text: one record per field line.
generateGoStruct(tableName, columns, order) ==
    structLoop(columns, order, "type " \o Str(toPascal(tableName)) \o " struct {\n", << >>)

\* the orders in which a range over the map can visit its keys
RangeOrders(columns) ==
    { q \in [ 1..Cardinality(DOMAIN columns) -> DOMAIN columns ] :
        \A i, j \in 1..Cardinality(DOMAIN columns) : i # j => q[i] # q[j] }

(***************************************************************************)
(* The run of main.                                                        *)
(***************************************************************************)
Header == "package main\n"

SuccessMessage == "String written to file successfully."

\* the process ends with the given status
Exit(status) == pc' = "exited" /\ exitCode' = status

Init ==
    /\ pc = "main"
    /\ keyspace \in { << >>, << "k","s" >> }
    /\ tableNames = << >>
    /\ idx = 0
    /\ structDefinitions = << >>
    /\ writeIdx = 0
    /\ dirCreated = FALSE
    /\ fileOpen = FALSE
    /\ fileContent = << >>
    /\ stdout = << >>
    /\ log = << >>
    /\ ioErrors = << >>
    /\ exitCode = -1
    /\ columnQueries = << >>
    /\ tableLog = << >>
    /\ cqlType = << >>
    /\ typeTree = << "token" >>
    /\ typeResult = NoResult

\* a keyspace check that lets an empty keyspace through
CheckKeyspaceNoExit ==
    /\ pc = "main"
    /\ pc' = "connect"
    /\ UNCHANGED << keyspace, tableNames, idx, structDefinitions, writeIdx, dirCreated,
                    fileOpen, fileContent, stdout, log, ioErrors, exitCode,
                    columnQueries, tableLog, typeVars >>

\* flag.Parse and the keyspace check: log.Fatal exits with status 1
CheckKeyspace ==
    /\ pc = "main"
    /\ IF keyspace = << >>
       THEN /\ log' = Append(log, "Keyspace name is required")
            /\ Exit(1)
       ELSE /\ pc' = "connect"
            /\ UNCHANGED << log, exitCode >>
    /\ UNCHANGED << keyspace, tableNames, idx, structDefinitions, writeIdx, dirCreated,
                    fileOpen, fileContent, stdout, ioErrors, columnQueries, tableLog,
                    typeVars >>

\* connectToScylla: the session, or log.Fatalf
Connect ==
    /\ pc = "connect"
    /\ \E ok \in BOOLEAN :
          IF ok
          THEN /\ pc' = "fetch_tables"
               /\ UNCHANGED << log, exitCode >>
          ELSE /\ log' = Append(log, "Could not connect to ScyllaDB")
               /\ Exit(1)
    /\ UNCHANGED << keyspace, tableNames, idx, structDefinitions, writeIdx, dirCreated,
                    fileOpen, fileContent, stdout, ioErrors, columnQueries, tableLog,
                    typeVars >>

\* fetchTableNames: the table names, or log.Fatalf
FetchTableNames ==
    /\ pc = "fetch_tables"
    /\ \/ \E names \in TableLists :
             /\ tableNames' = names
             /\ pc' = "tables"
             /\ UNCHANGED << log, exitCode >>
       \/ /\ log' = Append(log, "Error fetching table definitions")
          /\ Exit(1)
          /\ UNCHANGED tableNames
    /\ UNCHANGED << keyspace, idx, structDefinitions, writeIdx, dirCreated, fileOpen,
                    fileContent, stdout, ioErrors, columnQueries, tableLog, typeVars >>

\* One iteration of the loop over tableNames: the column query, then
\* generateGoStruct; a query error is logged and the table skipped, a generation
\* error panics (exit status 2).
ProcessTable ==
    /\ pc = "tables"
    /\ idx < Len(tableNames)
    /\ LET tableName == tableNames[idx + 1]
       IN  /\ columnQueries' = Append(columnQueries, tableName)
           /\ \/ /\ log' = Append(log, "Error fetching column definitions for table "
                                        \o Str(tableName))
                 /\ tableLog' = Append(tableLog,
                        [ table |-> tableName, outcome |-> "fetch_error",
                          rows |-> << >>, fields |-> << >> ])
                 /\ idx' = idx + 1
                 /\ UNCHANGED << pc, exitCode, structDefinitions >>
              \/ \E rows \in ColumnRows :
                    LET columns == fetchColumnDefinitions(rows)
                    IN  \E order \in RangeOrders(columns) :
                           LET g == generateGoStruct(tableName, columns, order)
                           IN  IF ~ g.err.isNil
                               THEN /\ tableLog' = Append(tableLog,
                                          [ table |-> tableName, outcome |-> "panic",
                                            rows |-> rows, fields |-> << >> ])
                                    /\ Exit(2)
                                    /\ UNCHANGED << idx, log, structDefinitions >>
                               ELSE /\ structDefinitions' = Append(structDefinitions, g.text)
                                    /\ tableLog' = Append(tableLog,
                                          [ table |-> tableName, outcome |-> "generated",
                                            rows |-> rows, fields |-> g.fields ])
                                    /\ idx' = idx + 1
                                    /\ UNCHANGED << pc, exitCode, log >>
    /\ UNCHANGED << keyspace, tableNames, writeIdx, dirCreated, fileOpen, fileContent,
                    stdout, ioErrors, typeVars >>

\* os.MkdirAll after the loop: on an error main prints and returns (status 0)
MkdirAll ==
    /\ pc = "tables"
    /\ idx = Len(tableNames)
    /\ \E ok \in BOOLEAN :
          IF ok
          THEN /\ dirCreated' = TRUE
               /\ pc' = "open"
               /\ UNCHANGED << stdout, ioErrors, exitCode >>
          ELSE /\ stdout' = Append(stdout, "Error creating directory:")
               /\ ioErrors' = Append(ioErrors, "mkdir")
               /\ Exit(0)
               /\ UNCHANGED dirCreated
    /\ UNCHANGED << keyspace, tableNames, idx, structDefinitions, writeIdx, fileOpen,
                    fileContent, log, columnQueries, tableLog, typeVars >>

\* os.OpenFile: on an error main panics (status 2)
OpenFile ==
    /\ pc = "open"
    /\ \E ok \in BOOLEAN :
          IF ok
          THEN /\ fileOpen' = TRUE
               /\ pc' = "header"
               /\ UNCHANGED << ioErrors, exitCode >>
          ELSE /\ ioErrors' = Append(ioErrors, "open")
               /\ Exit(2)
               /\ UNCHANGED fileOpen
    /\ UNCHANGED << keyspace, tableNames, idx, structDefinitions, writeIdx, dirCreated,
                    fileContent, stdout, log, columnQueries, tableLog, typeVars >>

\* file.WriteString("package main\n"): the result is not looked at
WriteHeader ==
    /\ pc = "header"
    /\ \E ok \in BOOLEAN :
          IF ok
          THEN /\ fileContent' = Append(fileContent, Header)
               /\ UNCHANGED ioErrors
          ELSE /\ ioErrors' = Append(ioErrors, "header")
               /\ UNCHANGED fileContent
    /\ pc' = "structs"
    /\ UNCHANGED << keyspace, tableNames, idx, structDefinitions, writeIdx, dirCreated,
                    fileOpen, stdout, log, exitCode, columnQueries, tableLog, typeVars >>

\* one iteration of the loop over structDefinitions: on an error main prints
\* and returns (status 0)
WriteStruct ==
    /\ pc = "structs"
    /\ writeIdx < Len(structDefinitions)
    /\ \E ok \in BOOLEAN :
          IF ok
          THEN /\ fileContent' = Append(fileContent, structDefinitions[writeIdx + 1])
               /\ writeIdx' = writeIdx + 1
               /\ UNCHANGED << pc, stdout, ioErrors, exitCode >>
          ELSE /\ stdout' = Append(stdout, "Error writing to file:")
               /\ ioErrors' = Append(ioErrors, "struct")
               /\ Exit(0)
               /\ UNCHANGED << fileContent, writeIdx >>
    /\ UNCHANGED << keyspace, tableNames, idx, structDefinitions, dirCreated, fileOpen,
                    log, columnQueries, tableLog, typeVars >>

\* the last statement of main, then a return from main (status 0)
PrintSuccess ==
    /\ pc = "structs"
    /\ writeIdx = Len(structDefinitions)
    /\ stdout' = Append(stdout, SuccessMessage)
    /\ Exit(0)
    /\ UNCHANGED << keyspace, tableNames, idx, structDefinitions, writeIdx, dirCreated,
                    fileOpen, fileContent, log, ioErrors, columnQueries, tableLog,
                    typeVars >>

Next ==
    \/ CheckKeyspace
    \/ Connect
    \/ FetchTableNames
    \/ ProcessTable
    \/ MkdirAll
    \/ OpenFile
    \/ WriteHeader
    \/ WriteStruct
    \/ PrintSuccess

Spec == Init /\ [][Next]_vars

(***************************************************************************)
(* What the claims about the run refer to.                                 *)
(***************************************************************************)
Entries == { tableLog[i] : i \in 1..Len(tableLog) }

Generated == { e \in Entries : e.outcome = "generated" }

ColumnNames(rows) == { rows[i].name : i \in 1..Len(rows) }

\* a column of the table has a type for which the type call has no mapping
HasUnmappedColumn(rows) ==
    \E i \in 1..Len(rows) : ~ cqlToGoType(rows[i].type).err.isNil

\* two distinct columns of the table transform to the same field identifier
HasIdentifierConflict(rows) ==
    \E i, j \in 1..Len(rows) :
        rows[i].name # rows[j].name /\ ToCamel(rows[i].name) = ToCamel(rows[j].name)

\* the run has done nothing beyond talking to the catalog about tables
NothingStarted ==
    /\ columnQueries = << >>
    /\ tableLog = << >>
    /\ structDefinitions = << >>
    /\ ~ dirCreated
    /\ ~ fileOpen
    /\ fileContent = << >>

FatalExit == pc = "exited" /\ exitCode > 0 /\ NothingStarted

\* the elements of a sequence, concatenated
RECURSIVE Concat(_)
Concat(q) == IF q = << >> THEN "" ELSE Head(q) \o Concat(Tail(q))

\* C2: a table with a column of unmapped type is skipped and nothing else: the
\* run is not aborted by it, so the process never ends before the loop has gone
\* through every table, and never with the status of a panic.
C2_UnmappedTableIsSkipped ==
    (\E e \in Entries : HasUnmappedColumn(e.rows))
    => /\ exitCode # 2 \/ ioErrors # << >>
       /\ pc = "exited" => idx = Len(tableNames)

\* C4: the i-th field of every generated struct is the field of the i-th column
\* the catalog returned for the table.
C4_FieldsInCatalogOrder ==
    \A e \in Generated :
        /\ Len(e.fields) = Len(e.rows)
        /\ \A i \in 1..Len(e.fields) : e.fields[i].tag = e.rows[i].name

\* C5: a table two of whose columns transform to the same identifier is never
\* turned into a struct definition; no struct has two fields of one identifier.
C5_IdentifierConflictReported ==
    \A e \in Generated :
        /\ ~ HasIdentifierConflict(e.rows)
        /\ \A i, j \in 1..Len(e.fields) :
              i # j => e.fields[i].ident # e.fields[j].ident

\* C6: a generated struct has exactly one field per column of its table; each
\* field's tag is the catalog's column name itself, so the tags are the column
\* names; and the struct definition appended last is the text of the table
\* generated last, each field line carrying that name as its tag (definitions
\* are only ever appended, so this covers each of them when it is appended).
C6_OneFieldPerColumnTaggedByName ==
    /\ \A e \in Generated :
          /\ Len(e.fields) = Cardinality(ColumnNames(e.rows))
          /\ { e.fields[i].tag : i \in 1..Len(e.fields) } = ColumnNames(e.rows)
          /\ \A i, j \in 1..Len(e.fields) : i # j => e.fields[i].tag # e.fields[j].tag
    /\ LET IsGenerated(e) == e.outcome = "generated"
           generated == SelectSeq(tableLog, IsGenerated)
           n    == Len(generated)
           Line(f) == "    " \o Str(ToCamel(f.tag)) \o " " \o f.goType \o " " \o BackQuote
                      \o "json:\"" \o Str(f.tag) \o "\"" \o BackQuote \o "\n"
       IN  /\ Len(structDefinitions) = n
           /\ n > 0 =>
                 structDefinitions[n] =
                    "type " \o Str(toPascal(generated[n].table)) \o " struct {\n"
                    \o Concat([ i \in 1..Len(generated[n].fields) |->
                                    Line(generated[n].fields[i]) ])
                    \o "}\n"

\* a struct of two fields has been generated, one of them for the column
\* user_id, whose identifier UserId differs from its tag
C6_Witness ==
    \E e \in Generated :
        /\ Len(e.fields) = 2
        /\ \E i \in 1..2 :
              /\ e.fields[i].tag = << "u","s","e","r","_","i","d" >>
              /\ e.fields[i].ident = << "U","s","e","r","I","d" >>
              /\ e.fields[i].goType = "gocql.UUID"

\* C7: with an empty keyspace flag, a failed connection or a failed table query
\* the process has exited with a non-zero status, and no column query, no struct
\* generation and no creation or write of the output has happened.
C7_FatalBeforeAnyWork ==
    /\ (keyspace = << >> /\ pc # "main") => FatalExit
    /\ (\E i \in 1..Len(log) : log[i] \in { "Keyspace name is required",
                                            "Could not connect to ScyllaDB",
                                            "Error fetching table definitions" })
          => FatalExit
    /\ exitCode = 1 => FatalExit

\* the table query has failed and the process has exited with status 1
C7_Witness ==
    /\ pc = "exited"
    /\ exitCode = 1
    /\ keyspace # << >>
    /\ log = << "Error fetching table definitions" >>

\* C8: once a step of writing the output has failed the run is over and has
\* failed: the process has exited, not with status 0, and the success message
\* is not printed.
C8_OutputFailureIsFatal ==
    ioErrors # << >>
    => /\ pc = "exited"
       /\ exitCode > 0
       /\ \A i \in 1..Len(stdout) : stdout[i] # SuccessMessage

\* C10: when the column query of a table has failed and no output step has, the
\* run ends with every table processed and the file holding the header followed
\* by the definitions of the tables whose query and generation succeeded, in order.
C10_FetchErrorSkipsOnlyThatTable ==
    ( /\ pc = "exited"
      /\ ioErrors = << >>
      /\ \E e \in Entries : e.outcome = "fetch_error" )
    => /\ Len(tableLog) = Len(tableNames)
       /\ fileContent = << Header >> \o structDefinitions
       /\ Len(structDefinitions) = Cardinality({ i \in 1..Len(tableLog) :
                                                  tableLog[i].outcome # "fetch_error" })

=============================================================================
